---- MODULE Spec2Model ----
(***************************************************************************)
(* SEPERA.py, full_app: one Streamlit script run per form submission.      *)
(* The form's widget values are the state the user edits; a submission     *)
(* derives the two feature frames, annotates the prostate diagram and      *)
(* draws one SHAP force plot per lobe.                                     *)
(*                                                                         *)
(* Numbers: every widget value and every derived value is an exact         *)
(* rational [num, den] in lowest terms with den > 0 (Python ints and       *)
(* floats; rounding of the binary floats is not modelled).  den = 0 stands *)
(* for the inf / nan a division by zero would give if it did not raise.    *)
(***************************************************************************)
EXTENDS Integers, Sequences, FiniteSets, TLC

\* The user changes at most MaxEdits widgets away from their default values.
MaxEdits == 1

----------------------------------------------------------------------------
(* Numbers *)

Abs(n) == IF n < 0 THEN -n ELSE n

RECURSIVE GCD(_, _)
GCD(a, b) == IF b = 0 THEN a ELSE GCD(b, a % b)

\* n/d in lowest terms; d = 0 gives inf (1/0, -1/0) or nan (0/0)
Rat(n, d) ==
    IF d = 0
    THEN [num |-> (IF n > 0 THEN 1 ELSE IF n < 0 THEN -1 ELSE 0), den |-> 0]
    ELSE LET g == GCD(Abs(n), Abs(d))
             s == IF d < 0 THEN -1 ELSE 1
         IN  [num |-> (s * n) \div g, den |-> (s * d) \div g]

Num(n) == [num |-> n, den |-> 1]

\* Python's a / b : raises ZeroDivisionError when b == 0 (int and float alike)
DivRaisesNever(b) == FALSE
DivRaises(b) == b.num = 0

Div(a, b) == Rat(a.num * b.den, a.den * b.num)

Mul(a, b) == Rat(a.num * b.num, a.den * b.den)

Less(a, b) == a.num * b.den < b.num * a.den

----------------------------------------------------------------------------
(* The form *)

CHOICES == (0 :> "No" @@ 1 :> "Yes")

G_CHOICES ==
    (0 :> "Benign" @@
     1 :> "ISUP Grade 1 (Gleason 3+3)" @@
     2 :> "ISUP Grade 2 (Gleason 3+4)" @@
     3 :> "ISUP Grade 3 (Gleason 4+3)" @@
     4 :> "ISUP Grade 4 (Gleason 4+4/5+3/3+5)" @@
     5 :> "ISUP Grade 5 (Gleason 4+5/5+4/5+5)")

features_list ==
    << "Age at Biopsy",
       "Worst Gleason Grade Group",
       "PSA density",
       "Perineural invasion",
       "% positive cores",
       "% Gleason pattern 4/5",
       "Max % core involvement",
       "Base finding",
       "Base % core involvement",
       "Mid % core involvement",
       "Apex % core involvement" >>

SharedFields == {"age", "psa", "vol", "p_high", "perineural_inv"}

LeftFields ==
    {"base_findings", "base_p_inv", "mid_findings", "mid_p_inv",
     "apex_findings", "apex_p_inv", "pos_core", "taken_core"}

RightFields ==
    {"base_findings_r", "base_p_inv_r", "mid_findings_r", "mid_p_inv_r",
     "apex_findings_r", "apex_p_inv_r", "pos_core_r", "taken_core_r"}

FormFields == SharedFields \cup LeftFields \cup RightFields

GradeFields ==
    {"base_findings", "mid_findings", "apex_findings",
     "base_findings_r", "mid_findings_r", "apex_findings_r"}

PInvFields ==
    {"base_p_inv", "mid_p_inv", "apex_p_inv",
     "base_p_inv_r", "mid_p_inv_r", "apex_p_inv_r"}

CoreFields == {"pos_core", "taken_core", "pos_core_r", "taken_core_r"}

\* the value each widget shows before the user touches it
FormDefaults ==
    ("age" :> Num(60) @@ "psa" :> Num(7) @@ "vol" :> Num(40) @@
     "p_high" :> Rat(45, 2) @@ "perineural_inv" :> Num(1) @@
     "base_findings" :> Num(3) @@ "base_p_inv" :> Rat(15, 2) @@
     "mid_findings" :> Num(3) @@ "mid_p_inv" :> Num(5) @@
     "apex_findings" :> Num(0) @@ "apex_p_inv" :> Num(0) @@
     "pos_core" :> Num(3) @@ "taken_core" :> Num(6) @@
     "base_findings_r" :> Num(5) @@ "base_p_inv_r" :> Num(45) @@
     "mid_findings_r" :> Num(4) @@ "mid_p_inv_r" :> Num(45) @@
     "apex_findings_r" :> Num(3) @@ "apex_p_inv_r" :> Num(20) @@
     "pos_core_r" :> Num(5) @@ "taken_core_r" :> Num(8))

\* the values the user may enter in a widget: a sample of the widget's range
\* that holds both ends of it
FieldChoices(f) ==
    IF f \in GradeFields THEN {Num(g) : g \in DOMAIN G_CHOICES}
    ELSE IF f \in PInvFields THEN {Num(0), Num(60), Num(100)}
    ELSE IF f \in CoreFields THEN {Num(0), Num(30)}
    ELSE IF f = "age" THEN {Num(0), Num(100)}
    ELSE IF f = "psa" THEN {Num(0)}
    ELSE IF f = "vol" THEN {Num(0)}
    ELSE IF f = "p_high" THEN {Num(0)}
    ELSE {Num(c) : c \in DOMAIN CHOICES}

Edited(f) == {w \in FormFields : f[w] # FormDefaults[w]}

----------------------------------------------------------------------------
(* pandas *)

\* pd.DataFrame({'Gleason': g, '% core involvement': p}) : one row per site,
\* index 0, 1, 2
SiteFrame(g, p) ==
    [i \in 1..Len(g) |->
        [index |-> i - 1,
         data  |-> ("Gleason" :> g[i] @@ "% core involvement" :> p[i])]]

\* row a comes before row b under by=['Gleason', '% core involvement'],
\* ascending=False
Before(a, b) ==
    \/ Less(b.data["Gleason"], a.data["Gleason"])
    \/ /\ a.data["Gleason"] = b.data["Gleason"]
       /\ Less(b.data["% core involvement"], a.data["% core involvement"])

RECURSIVE Insert(_, _)
Insert(row, sorted) ==
    IF sorted = << >> THEN << row >>
    ELSE IF Before(row, Head(sorted)) THEN << row >> \o sorted
    ELSE << Head(sorted) >> \o Insert(row, Tail(sorted))

\* DataFrame.sort_values(by=[...], ascending=False): a stable sort, rows that
\* tie on both keys keep their order
RECURSIVE SortValues(_)
SortValues(frame) ==
    IF frame = << >> THEN << >>
    ELSE LET rest == SortValues(SubSeq(frame, 1, Len(frame) - 1))
         IN  Insert(frame[Len(frame)], rest)

RECURSIVE SeqMax(_)
SeqMax(s) ==
    IF Len(s) = 1 THEN s[1]
    ELSE LET m == SeqMax(Tail(s))
         IN  IF Less(s[1], m) THEN m ELSE s[1]

\* frame[col].iloc[0]
ColFirst(frame, col) == frame[1].data[col]

\* frame[col].max()
ColMax(frame, col) == SeqMax([i \in 1..Len(frame) |-> frame[i].data[col]])

\* pd.DataFrame(d, index=[0]): one row, the columns in the dict's order
DataFrame(d) ==
    [columns |-> [i \in 1..Len(d) |-> d[i].key],
     values  |-> [i \in 1..Len(d) |-> d[i].value]]

NoFrame == [columns |-> << >>, values |-> << >>]

\* frame[name] of a one-row frame
Col(frame, name) ==
    frame.values[CHOOSE i \in 1..Len(frame.columns) : frame.columns[i] = name]

----------------------------------------------------------------------------
(* Feature derivation *)

\* (pos_core / taken_core) * 100
PercentPositiveCoresNoScale(pos, taken) == Div(pos, taken)
PercentPositiveCores(pos, taken) == Mul(Div(pos, taken), Num(100))

\* g_p_inv.sort_values(...) of the left lobe
sort_g_p_inv(f) ==
    SortValues(SiteFrame(
        << f["base_findings"], f["mid_findings"], f["apex_findings"] >>,
        << f["base_p_inv"], f["mid_p_inv"], f["apex_p_inv"] >>))

\* g_p_inv_r.sort_values(...) of the right lobe
sort_g_p_inv_r(f) ==
    SortValues(SiteFrame(
        << f["base_findings_r"], f["mid_findings_r"], f["apex_findings_r"] >>,
        << f["base_p_inv_r"], f["mid_p_inv_r"], f["apex_p_inv_r"] >>))

Item(k, v) == [key |-> k, value |-> v]

\* pt_data with the positional columns read from the sorted rows
pt_data_ranked(f) ==
    << Item("Age at Biopsy", f["age"]),
       Item("Worst Gleason Grade Group", ColMax(sort_g_p_inv(f), "Gleason")),
       Item("PSA density", Div(f["psa"], f["vol"])),
       Item("Perineural invasion", f["perineural_inv"]),
       Item("% positive cores", PercentPositiveCores(f["pos_core"], f["taken_core"])),
       Item("% Gleason pattern 4/5", f["p_high"]),
       Item("Max % core involvement", ColMax(sort_g_p_inv(f), "% core involvement")),
       Item("Base finding", sort_g_p_inv(f)[1].data["Gleason"]),
       Item("Base % core involvement", sort_g_p_inv(f)[1].data["% core involvement"]),
       Item("Mid % core involvement", sort_g_p_inv(f)[2].data["% core involvement"]),
       Item("Apex % core involvement", sort_g_p_inv(f)[3].data["% core involvement"]) >>
\* the dict pt_data, in insertion order
pt_data(f) ==
    << Item("Age at Biopsy", f["age"]),
       Item("Worst Gleason Grade Group", ColMax(sort_g_p_inv(f), "Gleason")),
       Item("PSA density", Div(f["psa"], f["vol"])),
       Item("Perineural invasion", f["perineural_inv"]),
       Item("% positive cores", PercentPositiveCores(f["pos_core"], f["taken_core"])),
       Item("% Gleason pattern 4/5", f["p_high"]),
       Item("Max % core involvement", ColMax(sort_g_p_inv(f), "% core involvement")),
       Item("Base finding", f["base_findings"]),
       Item("Base % core involvement", f["base_p_inv"]),
       Item("Mid % core involvement", f["mid_p_inv"]),
       Item("Apex % core involvement", f["apex_p_inv"]) >>

\* pt_data_r with two of its keys in each other's place
pt_data_r_reordered(f) ==
    << Item("Age at Biopsy", f["age"]),
       Item("PSA density", Div(f["psa"], f["vol"])),
       Item("Worst Gleason Grade Group", ColMax(sort_g_p_inv(f), "Gleason")),
       Item("Perineural invasion", f["perineural_inv"]),
       Item("% positive cores", PercentPositiveCores(f["pos_core_r"], f["taken_core_r"])),
       Item("% Gleason pattern 4/5", f["p_high"]),
       Item("Max % core involvement", ColMax(sort_g_p_inv_r(f), "% core involvement")),
       Item("Base finding", f["base_findings_r"]),
       Item("Base % core involvement", f["base_p_inv_r"]),
       Item("Mid % core involvement", f["mid_p_inv_r"]),
       Item("Apex % core involvement", f["apex_p_inv_r"]) >>

\* the dict pt_data_r, in insertion order; its worst grade reads sort_g_p_inv
pt_data_r(f) ==
    << Item("Age at Biopsy", f["age"]),
       Item("Worst Gleason Grade Group", ColMax(sort_g_p_inv(f), "Gleason")),
       Item("PSA density", Div(f["psa"], f["vol"])),
       Item("Perineural invasion", f["perineural_inv"]),
       Item("% positive cores", PercentPositiveCores(f["pos_core_r"], f["taken_core_r"])),
       Item("% Gleason pattern 4/5", f["p_high"]),
       Item("Max % core involvement", ColMax(sort_g_p_inv_r(f), "% core involvement")),
       Item("Base finding", f["base_findings_r"]),
       Item("Base % core involvement", f["base_p_inv_r"]),
       Item("Mid % core involvement", f["mid_p_inv_r"]),
       Item("Apex % core involvement", f["apex_p_inv_r"]) >>

\* building pt_data raises: psa/vol or pos_core/taken_core divides by zero
LeftRaises(f) == DivRaises(f["vol"]) \/ DivRaises(f["taken_core"])

\* building pt_data_r raises
RightRaises(f) == DivRaises(f["vol"]) \/ DivRaises(f["taken_core_r"])

----------------------------------------------------------------------------
(* Annotated prostate diagram *)

\* per site: the grade widget, the % widget, the overlay family, the
\* transforms applied to the opened asset, where it is pasted, where its
\* text goes
Sites ==
    << [g |-> "base_findings", p |-> "base_p_inv", asset |-> "Corner",
        ops |-> << "flip" >>, at |-> << 145, 958 >>, text_at |-> << 525, 1110 >>],
       [g |-> "mid_findings", p |-> "mid_p_inv", asset |-> "Mid",
        ops |-> << >>, at |-> << 145, 606 >>, text_at |-> << 205, 690 >>],
       [g |-> "apex_findings", p |-> "apex_p_inv", asset |-> "Corner",
        ops |-> << >>, at |-> << 145, 130 >>, text_at |-> << 525, 275 >>],
       [g |-> "base_findings_r", p |-> "base_p_inv_r", asset |-> "Corner",
        ops |-> << "mirror", "flip" >>, at |-> << 1104, 958 >>,
        text_at |-> << 1300, 1110 >>],
       [g |-> "mid_findings_r", p |-> "mid_p_inv_r", asset |-> "Mid",
        ops |-> << >>, at |-> << 1542, 606 >>, text_at |-> << 1590, 690 >>],
       [g |-> "apex_findings_r", p |-> "apex_p_inv_r", asset |-> "Corner",
        ops |-> << "mirror" >>, at |-> << 1104, 130 >>,
        text_at |-> << 1300, 275 >>] >>

\* PIL.Image.open('Images/Prostate diagram.png')
load_images == [pastes |-> << >>, texts |-> << >>]

\* the image2.paste calls of one site, without the branch of grade 5
SitePastesBelowFive(s, f) ==
    IF f[s.g].num \in 1..4
    THEN << [file |-> << s.asset, f[s.g].num >>, ops |-> s.ops, at |-> s.at] >>
    ELSE << >>

\* the image2.paste calls of one site: none for grade 0, else
\* 'Images/<asset> <grade>.png'
SitePastes(s, f) ==
    IF f[s.g].num \in 1..5
    THEN << [file |-> << s.asset, f[s.g].num >>, ops |-> s.ops, at |-> s.at] >>
    ELSE << >>

RECURSIVE AllPastes(_, _)
AllPastes(i, f) ==
    IF i > Len(Sites) THEN << >>
    ELSE SitePastes(Sites[i], f) \o AllPastes(i + 1, f)

\* the draw.text call of one site
SiteText(s, f) ==
    [text |-> << G_CHOICES[f[s.g].num], "% core inv: ", f[s.p] >>, at |-> s.text_at]

Annotate(img, f) ==
    [pastes |-> img.pastes \o AllPastes(1, f),
     texts  |-> img.texts \o [i \in 1..Len(Sites) |-> SiteText(Sites[i], f)]]

----------------------------------------------------------------------------
(* SHAP *)

\* the base value both force plots are given
base_value == Rat(3, 10)

\* the expected value the loaded explainer may carry (the mean output of the
\* model over the background data it was built with)
ExpectedValues == {Rat(3, 10), Rat(1, 4)}

\* explainer.shap_values(X): the attributions of X; they add up to the
\* model's probability for X minus the explainer's expected value
shap_values(expl, X) == [of |-> X, expected_value |-> expl.expected_value]

\* shap.force_plot(base, values, X, names, matplotlib=True) and col2.pyplot:
\* the plot prints base + sum(values) in bold
ForcePlot(header, base, values, X, names) ==
    [header |-> header, base_value |-> base, shap_values |-> values,
     features |-> X, feature_names |-> names]

----------------------------------------------------------------------------
(* load_items *)

save_dest == "model"

model_checkpoint == "model/SEPERA.pkl"

feature_checkpoint == "model/Features.pkl"

explainer_checkpoint == "model/explainer.pkl"

shap_checkpoint == "model/model shap.pkl"

Checkpoints ==
    {model_checkpoint, feature_checkpoint, explainer_checkpoint, shap_checkpoint}

\* what the local disk may hold when the process starts: any of the
\* checkpoints, inside the directory
LocalStates ==
    {fs \in SUBSET ({save_dest} \cup Checkpoints) :
        fs \cap Checkpoints # {} => save_dest \in fs}

\* the column order in which the COMPARISON TO STUDY POPULATION block reads
\* the feature artifact: column 0 PSA, 1 max % core involvement, ... 8 age,
\* 9 worst grade group, 10 mid % core involvement; column 7, which the block
\* calls TZ % core involvement, is the apex column here
ComparisonColumns ==
    << "PSA density",
       "Max % core involvement",
       "% Gleason pattern 4/5",
       "Perineural invasion",
       "Base % core involvement",
       "Base finding",
       "% positive cores",
       "Apex % core involvement",
       "Age at Biopsy",
       "Worst Gleason Grade Group",
       "Mid % core involvement" >>

\* the column orders the feature artifact may have
FeatureSchemas == {features_list, ComparisonColumns}

\* what the two Google Drive locations may hold: a model whose explainer has
\* the expected value 0.3 with features in the page's order, or another model
\* with features in the other order
Artifacts ==
    {a \in [expected_value : ExpectedValues, columns : FeatureSchemas] :
        (a.expected_value = Rat(3, 10)) <=> (a.columns = features_list)}

\* a download whatever the local files are
AlwaysDownload(file, fs) == TRUE

\* not model_checkpoint.exists()
NeedsDownload(file, fs) == file \notin fs

\* the downloads one call of load_items asks for, in its order
Wanted(fs) ==
    (IF NeedsDownload(model_checkpoint, fs) THEN << model_checkpoint >> ELSE << >>)
    \o (IF NeedsDownload(feature_checkpoint, fs) THEN << feature_checkpoint >> ELSE << >>)

NoExplainer == [expected_value |-> Rat(0, 0)]

NoFeatures == [columns |-> << >>]

\* joblib.load(feature_checkpoint)
LoadedFeatures(d) == [columns |-> d.columns]

\* shap.TreeExplainer(model, np.array(features), model_output='probability'),
\* dumped and loaded back
LoadedExplainer(d) == [expected_value |-> d.expected_value]

----------------------------------------------------------------------------
(* State *)

VARIABLES
    form,             \* the widget values of my_form
    pc,               \* where the script run is
    error,            \* the exception that ended the run, "" if none
    pt_features,      \* left frame
    pt_features_r,    \* right frame
    image2,           \* the diagram being annotated
    col1,             \* images shown in column 1
    col2,             \* plots shown in column 2
    explainer,        \* the explainer load_items returned
    explainer_calls,  \* frames handed to explainer.shap_values in this run
    model_calls,      \* frames handed to the model in this run
    features,         \* the feature artifact load_items returned
    drive,            \* what the Google Drive locations hold
    files,            \* the paths that exist on the local disk
    cache,            \* st.cache of load_items: << >> or << its result >>
    downloads,        \* downloads asked for by the load_items call under way
    loads,            \* times this process loaded the artifacts from disk
    resubmitted       \* this run was started by Submit on a finished submission

vars ==
    << form, pc, error, pt_features, pt_features_r, image2, col1, col2,
       explainer, explainer_calls, model_calls, features, drive, files, cache,
       downloads, loads, resubmitted >>

\* what the steps of a submission leave alone
kept == << features, drive, files, cache, downloads, loads, resubmitted >>

\* the process starts; no script has run yet
Init ==
    /\ form = FormDefaults
    /\ pc = "boot"
    /\ error = ""
    /\ pt_features = NoFrame
    /\ pt_features_r = NoFrame
    /\ image2 = load_images
    /\ col1 = << >>
    /\ col2 = << >>
    /\ explainer = NoExplainer
    /\ explainer_calls = << >>
    /\ model_calls = << >>
    /\ features = NoFeatures
    /\ drive \in Artifacts
    /\ files \in LocalStates
    /\ cache = << >>
    /\ downloads = << >>
    /\ loads = 0
    /\ resubmitted = FALSE

\* st.cache without a stored result
CacheNeverHits == FALSE

\* st.cache holds a result of load_items
CacheHit == cache # << >>

\* a script run whose load_items call misses the cache: mkdir, then the
\* downloads of the absent model and feature files; the first n of them
\* complete, and if that is not all of them the next one raises
Retrieve ==
    /\ pc \in {"boot", "load_failed", "idle", "done", "error"}
    /\ ~CacheHit
    /\ \E n \in 0..Len(Wanted(files)) :
          /\ files' = files \cup {save_dest}
                        \cup {Wanted(files)[i] : i \in 1..n}
          /\ IF n = Len(Wanted(files))
             THEN /\ downloads' = Wanted(files)
                  /\ pc' = "load"
                  /\ error' = ""
             ELSE /\ downloads' = SubSeq(Wanted(files), 1, n + 1)
                  /\ pc' = "load_failed"
                  /\ error' = "DownloadError"
    /\ pt_features' = NoFrame
    /\ pt_features_r' = NoFrame
    /\ image2' = load_images
    /\ col1' = << >>
    /\ col2' = << >>
    /\ explainer_calls' = << >>
    /\ model_calls' = << >>
    /\ resubmitted' = FALSE
    /\ UNCHANGED << form, explainer, features, drive, cache, loads >>

\* model = joblib.load(model_checkpoint); features = joblib.load(...)
LoadModel ==
    /\ pc = "load"
    /\ loads' = loads + 1
    /\ features' = LoadedFeatures(drive)
    /\ pc' = "explainer"
    /\ UNCHANGED << form, error, pt_features, pt_features_r, image2, col1, col2,
                    explainer, explainer_calls, model_calls, drive, files, cache,
                    downloads, resubmitted >>

\* the explainer and shap checkpoints are written if absent and loaded;
\* load_items returns, st.cache keeps the result, the page is drawn
LoadExplainer ==
    /\ pc = "explainer"
    /\ files' = files \cup {explainer_checkpoint, shap_checkpoint}
    /\ explainer' = LoadedExplainer(drive)
    /\ cache' = << [features |-> features, explainer |-> explainer'] >>
    /\ downloads' = << >>
    /\ pc' = "idle"
    /\ UNCHANGED << form, error, pt_features, pt_features_r, image2, col1, col2,
                    explainer_calls, model_calls, features, drive, loads,
                    resubmitted >>

\* the server process is started again: the cache and the session are gone,
\* the local files stay
Restart ==
    /\ pc \in {"idle", "done", "error", "load_failed"}
    /\ pc' = "boot"
    /\ form' = FormDefaults
    /\ error' = ""
    /\ pt_features' = NoFrame
    /\ pt_features_r' = NoFrame
    /\ image2' = load_images
    /\ col1' = << >>
    /\ col2' = << >>
    /\ explainer' = NoExplainer
    /\ explainer_calls' = << >>
    /\ model_calls' = << >>
    /\ features' = NoFeatures
    /\ cache' = << >>
    /\ downloads' = << >>
    /\ loads' = 0
    /\ resubmitted' = FALSE
    /\ UNCHANGED << drive, files >>

\* the user types a value into one widget of the form
Edit ==
    /\ pc = "idle"
    /\ \E w \in FormFields : \E v \in FieldChoices(w) :
          /\ v # form[w]
          /\ form' = [form EXCEPT ![w] = v]
          /\ Cardinality(Edited(form')) <= MaxEdits
    /\ UNCHANGED << pc, error, pt_features, pt_features_r, image2, col1, col2,
                    explainer, explainer_calls, model_calls >>
    /\ UNCHANGED kept

\* Submit pressed, but the diagram is the object the last run drew on
SubmitOnKeptImage ==
    /\ pc \in {"idle", "done", "error"}
    /\ CacheHit
    /\ explainer' = cache[1].explainer
    /\ features' = cache[1].features
    /\ resubmitted' = (pc \in {"done", "error"})
    /\ image2' = image2
    /\ pt_features_r' = NoFrame
    /\ col1' = << >>
    /\ col2' = << >>
    /\ explainer_calls' = << >>
    /\ model_calls' = << >>
    /\ IF LeftRaises(form)
       THEN /\ pc' = "error"
            /\ error' = "ZeroDivisionError"
            /\ pt_features' = NoFrame
       ELSE /\ pc' = "right"
            /\ pt_features' = DataFrame(pt_data(form))
            /\ error' = ""
    /\ UNCHANGED << form, drive, files, cache, downloads, loads >>

\* Submit pressed, on a fresh page or on one that shows a finished
\* submission: the script runs with submitted = True, load_items hits the
\* cache, load_images opens the blank diagram, up to pt_features
Submit ==
    /\ pc \in {"idle", "done", "error"}
    /\ CacheHit
    /\ explainer' = cache[1].explainer
    /\ features' = cache[1].features
    /\ resubmitted' = (pc \in {"done", "error"})
    /\ image2' = load_images
    /\ pt_features_r' = NoFrame
    /\ col1' = << >>
    /\ col2' = << >>
    /\ explainer_calls' = << >>
    /\ model_calls' = << >>
    /\ IF LeftRaises(form)
       THEN /\ pc' = "error"
            /\ error' = "ZeroDivisionError"
            /\ pt_features' = NoFrame
       ELSE /\ pc' = "right"
            /\ pt_features' = DataFrame(pt_data(form))
            /\ error' = ""
    /\ UNCHANGED << form, drive, files, cache, downloads, loads >>

\* RIGHT DATA STORAGE
DeriveRight ==
    /\ pc = "right"
    /\ IF RightRaises(form)
       THEN /\ pc' = "error"
            /\ error' = "ZeroDivisionError"
            /\ UNCHANGED pt_features_r
       ELSE /\ pc' = "diagram"
            /\ pt_features_r' = DataFrame(pt_data_r(form))
            /\ UNCHANGED error
    /\ UNCHANGED << form, pt_features, image2, col1, col2, explainer,
                    explainer_calls, model_calls >>
    /\ UNCHANGED kept

\* ANNOTATED PROSTATE DIAGRAM
AnnotateDiagram ==
    /\ pc = "diagram"
    /\ image2' = Annotate(image2, form)
    /\ col1' = Append(col1, image2')
    /\ pc' = "shap_l"
    /\ UNCHANGED << form, error, pt_features, pt_features_r, col2, explainer,
                    explainer_calls, model_calls >>
    /\ UNCHANGED kept

\* SHAP plot for left lobe, scored by the model and drawn from the explainer's
\* own expected value
ExplainLeftFromExpectedValue ==
    /\ pc = "shap_l"
    /\ model_calls' = Append(model_calls, pt_features)
    /\ explainer_calls' = Append(explainer_calls, pt_features)
    /\ col2' = Append(col2,
                  ForcePlot("Left lobe", explainer.expected_value,
                            shap_values(explainer, pt_features),
                            pt_features, features_list))
    /\ pc' = "shap_r"
    /\ UNCHANGED << form, error, pt_features, pt_features_r, image2, col1,
                    explainer >>
    /\ UNCHANGED kept

\* SHAP plot for left lobe
ExplainLeft ==
    /\ pc = "shap_l"
    /\ explainer_calls' = Append(explainer_calls, pt_features)
    /\ col2' = Append(col2,
                  ForcePlot("Left lobe", base_value,
                            shap_values(explainer, pt_features),
                            pt_features, features_list))
    /\ pc' = "shap_r"
    /\ UNCHANGED << form, error, pt_features, pt_features_r, image2, col1,
                    explainer, model_calls >>
    /\ UNCHANGED kept

\* SHAP plot for right lobe, computed on the left frame
ExplainRightOnLeft ==
    /\ pc = "shap_r"
    /\ explainer_calls' = Append(explainer_calls, pt_features)
    /\ col2' = Append(col2,
                  ForcePlot("Right lobe", base_value,
                            shap_values(explainer, pt_features),
                            pt_features_r, features_list))
    /\ pc' = "done"
    /\ UNCHANGED << form, error, pt_features, pt_features_r, image2, col1,
                    explainer, model_calls >>
    /\ UNCHANGED kept

\* SHAP plot for right lobe
ExplainRight ==
    /\ pc = "shap_r"
    /\ explainer_calls' = Append(explainer_calls, pt_features_r)
    /\ col2' = Append(col2,
                  ForcePlot("Right lobe", base_value,
                            shap_values(explainer, pt_features_r),
                            pt_features_r, features_list))
    /\ pc' = "done"
    /\ UNCHANGED << form, error, pt_features, pt_features_r, image2, col1,
                    explainer, model_calls >>
    /\ UNCHANGED kept

\* the next script run, with submitted = False: load_items hits the cache,
\* the run's locals and what the last run showed are gone
Rerender ==
    /\ pc \in {"done", "error"}
    /\ CacheHit
    /\ explainer' = cache[1].explainer
    /\ features' = cache[1].features
    /\ pc' = "idle"
    /\ error' = ""
    /\ pt_features' = NoFrame
    /\ pt_features_r' = NoFrame
    /\ image2' = load_images
    /\ col1' = << >>
    /\ col2' = << >>
    /\ explainer_calls' = << >>
    /\ model_calls' = << >>
    /\ resubmitted' = FALSE
    /\ UNCHANGED << form, drive, files, cache, downloads, loads >>

Next ==
    \/ Retrieve
    \/ LoadModel
    \/ LoadExplainer
    \/ Restart
    \/ Edit
    \/ Submit
    \/ DeriveRight
    \/ AnnotateDiagram
    \/ ExplainLeft
    \/ ExplainRight
    \/ Rerender

Spec == Init /\ [][Next]_vars

----------------------------------------------------------------------------
(* What the claims speak of *)

Lobes == {"L", "R"}

\* the widgets of a lobe's three sites, base, mid, apex
GradeWidgets(l) ==
    IF l = "L" THEN << "base_findings", "mid_findings", "apex_findings" >>
    ELSE << "base_findings_r", "mid_findings_r", "apex_findings_r" >>

PInvWidgets(l) ==
    IF l = "L" THEN << "base_p_inv", "mid_p_inv", "apex_p_inv" >>
    ELSE << "base_p_inv_r", "mid_p_inv_r", "apex_p_inv_r" >>

PosWidget(l) == IF l = "L" THEN "pos_core" ELSE "pos_core_r"

TakenWidget(l) == IF l = "L" THEN "taken_core" ELSE "taken_core_r"

Grade(l, i) == form[GradeWidgets(l)[i]]

PInv(l, i) == form[PInvWidgets(l)[i]]

Frame(l) == IF l = "L" THEN pt_features ELSE pt_features_r

Derived(l) == Frame(l) # NoFrame

\* the largest member of a set of numbers
Largest(S) == CHOOSE m \in S : \A x \in S : ~Less(m, x)

MaxGrade(l) == Largest({Grade(l, i) : i \in 1..3})

\* the sites of lobe l that hold its maximum grade
TopSites(l) == {i \in 1..3 : Grade(l, i) = MaxGrade(l)}

\* a site below the lobe's maximum grade has more involvement than any site
\* at the maximum grade
LowerSiteHasMore(l) ==
    \E j \in (1..3) \ TopSites(l) : \A i \in TopSites(l) : Less(PInv(l, i), PInv(l, j))

----------------------------------------------------------------------------
(* C1 *)

\* C1: for each lobe, 'Worst Gleason Grade Group' is the maximum of that same
\* lobe's base, mid and apex grades
C1_WorstGradeIsOwnLobeMax ==
    \A l \in Lobes :
        Derived(l) => Col(Frame(l), "Worst Gleason Grade Group") = MaxGrade(l)

----------------------------------------------------------------------------
(* C2 *)

\* C2 as stated: when exactly one site holds the lobe's maximum grade,
\* 'Max % core involvement' is that site's involvement
C2_UniqueTopSiteInvolvement ==
    \A l \in Lobes :
        (Derived(l) /\ Cardinality(TopSites(l)) = 1) =>
            \A i \in TopSites(l) :
                Col(Frame(l), "Max % core involvement") = PInv(l, i)

\* C2 amended: when exactly one site holds the lobe's maximum grade,
\* 'Max % core involvement' is the largest involvement over all three sites of
\* the lobe, so it is that site's involvement only if no other site has more
C2_UniqueTopSiteLobeWideMax ==
    \A l \in Lobes :
        (Derived(l) /\ Cardinality(TopSites(l)) = 1) =>
            /\ Col(Frame(l), "Max % core involvement")
                   = Largest({PInv(l, i) : i \in 1..3})
            /\ \A i \in TopSites(l) :
                   (Col(Frame(l), "Max % core involvement") = PInv(l, i))
                       <=> (\A j \in 1..3 : ~Less(PInv(l, i), PInv(l, j)))

C2_Witness ==
    \E l \in Lobes :
        /\ Derived(l)
        /\ Cardinality(TopSites(l)) = 1
        /\ LowerSiteHasMore(l)
        /\ \A i \in TopSites(l) :
               Less(PInv(l, i), Col(Frame(l), "Max % core involvement"))

----------------------------------------------------------------------------
(* C3 *)

\* C3 as stated: when two or more sites tie at the lobe's maximum grade,
\* 'Max % core involvement' is the largest involvement among the tied sites
C3_TiedSitesInvolvement ==
    \A l \in Lobes :
        (Derived(l) /\ Cardinality(TopSites(l)) >= 2) =>
            Col(Frame(l), "Max % core involvement")
                = Largest({PInv(l, i) : i \in TopSites(l)})

\* C3 amended: when two or more sites tie at the lobe's maximum grade,
\* 'Max % core involvement' is the largest involvement over all three sites,
\* a lower-grade site included; it is never below the largest involvement of
\* the tied sites
C3_TiedSitesLobeWideMax ==
    \A l \in Lobes :
        (Derived(l) /\ Cardinality(TopSites(l)) >= 2) =>
            /\ Col(Frame(l), "Max % core involvement")
                   = Largest({PInv(l, i) : i \in 1..3})
            /\ ~Less(Col(Frame(l), "Max % core involvement"),
                     Largest({PInv(l, i) : i \in TopSites(l)}))
            /\ LowerSiteHasMore(l) =>
                   \E j \in (1..3) \ TopSites(l) :
                       Col(Frame(l), "Max % core involvement") = PInv(l, j)

C3_Witness ==
    \E l \in Lobes :
        /\ Derived(l)
        /\ Cardinality(TopSites(l)) = 2
        /\ LowerSiteHasMore(l)
        /\ Less(Largest({PInv(l, i) : i \in TopSites(l)}),
                Col(Frame(l), "Max % core involvement"))

----------------------------------------------------------------------------
(* C4 *)

\* the inputs the claim names: no cores taken in a lobe, or no volume
ZeroInput ==
    \/ form["vol"].num = 0
    \/ form["taken_core"].num = 0
    \/ form["taken_core_r"].num = 0

\* a frame holds inf or nan
HoldsNonFinite(frame) == \E i \in 1..Len(frame.values) : frame.values[i].den = 0

\* C4: a submission with zero cores taken in either lobe, or zero volume, gets
\* no further than the derivation of the right lobe and ends there with
\* ZeroDivisionError; it makes no explainer or model call, shows no diagram and
\* no plot, and holds no inf or nan
C4_ZeroInputFailsBeforeExplainer ==
    (pc # "idle" /\ ZeroInput) =>
        /\ pc \in {"right", "error"}
        /\ pc = "right" => (form["vol"].num # 0 /\ form["taken_core"].num # 0)
        /\ pc = "error" => error = "ZeroDivisionError"
        /\ (form["vol"].num = 0 \/ form["taken_core"].num = 0) => pt_features = NoFrame
        /\ pt_features_r = NoFrame
        /\ ~HoldsNonFinite(pt_features)
        /\ explainer_calls = << >>
        /\ model_calls = << >>
        /\ col1 = << >>
        /\ col2 = << >>

\* the right lobe fails after the left lobe was derived
C4_Witness ==
    /\ pc = "error"
    /\ error = "ZeroDivisionError"
    /\ form["taken_core_r"].num = 0
    /\ pt_features # NoFrame
    /\ explainer_calls = << >>

----------------------------------------------------------------------------
(* C5 *)

\* C5: for each lobe, '% positive cores' is 100 x that lobe's positive cores
\* over that lobe's cores taken; 3 of 6 gives 50
C5_PercentPositiveCores ==
    \A l \in Lobes :
        Derived(l) =>
            LET v == Col(Frame(l), "% positive cores")
                pos == form[PosWidget(l)].num
                taken == form[TakenWidget(l)].num
            IN  /\ taken > 0
                /\ v.den > 0
                /\ v.num * taken = 100 * pos * v.den
                /\ (pos = 3 /\ taken = 6) => v = Num(50)

\* both lobes derived from different counts, the left one 3 of 6
C5_Witness ==
    /\ Derived("L") /\ Derived("R")
    /\ form["pos_core"] = Num(3) /\ form["taken_core"] = Num(6)
    /\ Col(pt_features, "% positive cores") = Num(50)
    /\ form["pos_core_r"] # form["pos_core"]
    /\ Col(pt_features_r, "% positive cores") # Col(pt_features, "% positive cores")

----------------------------------------------------------------------------
(* C6 *)

PatientColumns ==
    {"Age at Biopsy", "PSA density", "% Gleason pattern 4/5", "Perineural invasion"}

\* the columns of a frame that are not patient-level
LobeColumns(frame) ==
    [n \in {frame.columns[i] : i \in 1..Len(frame.columns)} \ PatientColumns
        |-> Col(frame, n)]

\* the forms that differ from f in one widget of the set W
OneWidgetAway(f, W) ==
    {[f EXCEPT ![w] = v] : <<w, v>> \in
        UNION {{<<w, v>> : v \in FieldChoices(w)} : w \in W}}

\* C6: the two frames agree on the four patient-level columns, and every other
\* column of a lobe's frame is a function of that lobe's widgets only: entering
\* another value in a widget of the other lobe leaves it as it is
C6_SharedPatientFieldsOnly ==
    (Derived("L") /\ Derived("R")) =>
        /\ \A n \in PatientColumns : Col(pt_features, n) = Col(pt_features_r, n)
        /\ Col(pt_features, "PSA density").num * form["vol"].num
               = form["psa"].num * Col(pt_features, "PSA density").den * form["vol"].den
        /\ \A f2 \in OneWidgetAway(form, RightFields) :
               ~LeftRaises(f2) =>
                   LobeColumns(DataFrame(pt_data(f2))) = LobeColumns(pt_features)
        /\ \A f2 \in OneWidgetAway(form, LeftFields) :
               ~RightRaises(f2) =>
                   LobeColumns(DataFrame(pt_data_r(f2))) = LobeColumns(pt_features_r)

----------------------------------------------------------------------------
(* C7 *)

\* C7: for each lobe, 'Base finding' and the three positional involvement
\* columns hold the values entered for that lobe's base grade and base, mid and
\* apex involvement, whatever the order the sort gives the sites
C7_PositionalFieldsRaw ==
    \A l \in Lobes :
        Derived(l) =>
            /\ Col(Frame(l), "Base finding") = Grade(l, 1)
            /\ Col(Frame(l), "Base % core involvement") = PInv(l, 1)
            /\ Col(Frame(l), "Mid % core involvement") = PInv(l, 2)
            /\ Col(Frame(l), "Apex % core involvement") = PInv(l, 3)

\* the sort moved the left lobe's base row away from the top, and the sites
\* differ in grade and in involvement
C7_Witness ==
    /\ Derived("L")
    /\ sort_g_p_inv(form)[1].index # 0
    /\ Grade("L", 1) # Grade("L", 3)
    /\ PInv("L", 1) # PInv("L", 2)
    /\ PInv("L", 1) # PInv("L", 3)
    /\ Col(pt_features, "Base finding") = Grade("L", 1)

----------------------------------------------------------------------------
(* C8 *)

\* what a force plot prints in bold is base_value + sum(shap_values), and the
\* attributions sum to the model's probability minus the explainer's expected
\* value: the two are equal exactly when the plot's base value is that
\* expected value
PrintsModelProbability(plot) ==
    /\ plot.shap_values.of = plot.features
    /\ plot.base_value = plot.shap_values.expected_value

----------------------------------------------------------------------------
(* C9 *)

\* the plots of a run: the left one is computed from and drawn with the left
\* frame, the right one from and with the right frame
C9_PlotsUseOwnFrame ==
    /\ Len(col2) >= 1 =>
           /\ col2[1].header = "Left lobe"
           /\ explainer_calls[1] = pt_features
           /\ col2[1].shap_values.of = pt_features
           /\ col2[1].features = pt_features
    /\ Len(col2) >= 2 =>
           /\ col2[2].header = "Right lobe"
           /\ explainer_calls[2] = pt_features_r
           /\ col2[2].shap_values.of = pt_features_r
           /\ col2[2].features = pt_features_r
    /\ Len(col2) <= 2

\* a frame, once made, stays as it is until the run is over
C9_FramesKept ==
    pc \notin {"done", "error"} =>
        /\ pt_features # NoFrame => pt_features' = pt_features
        /\ pt_features_r # NoFrame => pt_features_r' = pt_features_r

\* C9: explanations are requested per lobe, each computed from and plotted
\* with its own lobe's frame only, and neither frame changes between its
\* creation and its use
C9_ExplanationsPerLobe == []C9_PlotsUseOwnFrame /\ [][C9_FramesKept]_vars

\* both plots drawn, from frames that differ
C9_Witness ==
    /\ pc = "done"
    /\ Len(col2) = 2
    /\ pt_features # pt_features_r
    /\ col2[1].shap_values.of # col2[2].shap_values.of
    /\ pt_features = DataFrame(pt_data(form))
    /\ pt_features_r = DataFrame(pt_data_r(form))

----------------------------------------------------------------------------
(* C10 *)

\* C10: every derived frame has exactly 11 columns, in the order Age at
\* Biopsy, Worst Gleason Grade Group, PSA density, Perineural invasion,
\* % positive cores, % Gleason pattern 4/5, Max % core involvement, Base
\* finding, Base / Mid / Apex % core involvement, which is the order of
\* features_list and of the names each plot is labelled with
C10_ElevenFieldsInSchemaOrder ==
    /\ \A l \in Lobes :
           Derived(l) =>
               /\ Len(Frame(l).columns) = 11
               /\ Len(Frame(l).values) = 11
               /\ Frame(l).columns =
                      << "Age at Biopsy", "Worst Gleason Grade Group", "PSA density",
                         "Perineural invasion", "% positive cores",
                         "% Gleason pattern 4/5", "Max % core involvement",
                         "Base finding", "Base % core involvement",
                         "Mid % core involvement", "Apex % core involvement" >>
               /\ Frame(l).columns = features_list
    /\ \A i \in 1..Len(col2) : col2[i].feature_names = col2[i].features.columns

\* both frames derived and both plots labelled
C10_Witness ==
    /\ Derived("L") /\ Derived("R")
    /\ Len(col2) = 2
    /\ col2[2].feature_names = pt_features_r.columns
    /\ Len(pt_features_r.columns) = 11

----------------------------------------------------------------------------
(* C11 *)

\* a step that runs the retrieval part of load_items
RetrievalStep ==
    /\ pc \in {"boot", "load_failed", "idle", "done", "error"}
    /\ pc' \in {"load", "load_failed"}

C11_Step ==
    /\ RetrievalStep =>
           /\ \A i \in 1..Len(downloads') :
                  /\ downloads'[i] \in {model_checkpoint, feature_checkpoint}
                  /\ downloads'[i] \notin files
           /\ {model_checkpoint, feature_checkpoint} \subseteq files =>
                  (downloads' = << >> /\ files' = files)
    /\ ~RetrievalStep => (downloads' = downloads \/ downloads' = << >>)
    /\ Checkpoints \subseteq files => files' = files

\* C11: a download is asked for only when its local file is absent; with both
\* local copies present retrieval asks for none, and once every checkpoint
\* exists no step changes the set of local files
C11_RetrievalIdempotent == [][C11_Step]_vars

\* retrieval has run on a disk that holds every checkpoint and asked for no
\* download
C11_Witness ==
    /\ pc = "load"
    /\ Checkpoints \subseteq files
    /\ downloads = << >>
    /\ loads = 0

----------------------------------------------------------------------------
(* C12 *)

PageStates == {"idle", "right", "diagram", "shap_l", "shap_r", "done", "error"}

C12_LoadedOnce ==
    /\ loads <= 1
    /\ Len(cache) <= 1
    /\ pc \in PageStates =>
           /\ loads = 1
           /\ Len(cache) = 1
           /\ explainer = cache[1].explainer
           /\ features = cache[1].features
           /\ explainer = LoadedExplainer(drive)

C12_CacheKept ==
    (cache # << >> /\ pc' # "boot") => (cache' = cache /\ loads' = loads)

\* C12: within one process the artifacts are loaded at most once; every page
\* render and submission after that works on the objects of that one load,
\* and none loads again or replaces them
C12_LoadOncePerProcess == []C12_LoadedOnce /\ [][C12_CacheKept]_vars

\* a submission that followed another one has finished on the objects of the
\* one load
C12_Witness ==
    /\ pc = "done"
    /\ resubmitted
    /\ loads = 1
    /\ explainer = cache[1].explainer
    /\ Len(explainer_calls) = 2

----------------------------------------------------------------------------
(* C13 *)

\* the overlay family of site i of Sites: Corner for base and apex, Mid for mid
Family(i) == IF i \in {2, 5} THEN "Mid" ELSE "Corner"

\* the pastes of image img at the place of site i
PastesAt(img, i) == {k \in 1..Len(img.pastes) : img.pastes[k].at = Sites[i].at}

Annotated == pc \in {"shap_l", "shap_r", "done"}

\* C13: in the annotated diagram each of the six sites has no overlay when its
\* grade is 0 and, for grade g in 1..5, exactly one, asset g of the site's
\* family (Corner for base and apex, Mid for mid) at the site's place; sites
\* with different grades in one family get different assets
C13_OneOverlayPerSite ==
    Annotated =>
        /\ \A i \in 1..6 :
               LET g == form[Sites[i].g].num
               IN  /\ g = 0 => PastesAt(image2, i) = {}
                   /\ g \in 1..5 =>
                          /\ Cardinality(PastesAt(image2, i)) = 1
                          /\ \A k \in PastesAt(image2, i) :
                                 image2.pastes[k].file = << Family(i), g >>
        /\ \A k \in 1..Len(image2.pastes) : \E i \in 1..6 : k \in PastesAt(image2, i)
        /\ \A i, j \in 1..6 :
               \A k \in PastesAt(image2, i) : \A m \in PastesAt(image2, j) :
                   (Family(i) = Family(j) /\ form[Sites[i].g] # form[Sites[j].g]) =>
                       image2.pastes[k].file # image2.pastes[m].file
        /\ \A i, j \in 1..6 : i # j => Sites[i].at # Sites[j].at

\* an annotated diagram with a benign site, a grade 5 site and a mid site
C13_Witness ==
    /\ Annotated
    /\ \E i \in 1..6 : form[Sites[i].g].num = 0 /\ PastesAt(image2, i) = {}
    /\ \E i \in 1..6 : form[Sites[i].g].num = 5 /\ PastesAt(image2, i) # {}
    /\ \E i \in {2, 5} : \E k \in PastesAt(image2, i) :
           image2.pastes[k].file[1] = "Mid"

----------------------------------------------------------------------------
(* C14 *)

\* the derived frame's columns are not the columns of the loaded feature
\* artifact
SchemaMismatch == Derived("L") /\ pt_features.columns # features.columns

\* C14: a submission whose frame disagrees with the loaded artifact's schema
\* ends in a SchemaMismatch error before any explanation call
C14_SchemaMismatchIsFatal ==
    SchemaMismatch =>
        /\ explainer_calls = << >>
        /\ col2 = << >>
        /\ pc # "done"
        /\ (pc = "error" /\ ~ZeroInput) => error = "SchemaMismatch"

----------------------------------------------------------------------------
(* C15 *)

\* C15: what a submission derives and draws is a function of the values it
\* was submitted with: the frames are those of the form, the diagram is the
\* blank one until it is annotated and the blank one with this form's six
\* texts and overlays after, whatever was drawn before
C15_OutputsOfThisSubmissionOnly ==
    /\ Derived("L") => pt_features = DataFrame(pt_data(form))
    /\ Derived("R") => pt_features_r = DataFrame(pt_data_r(form))
    /\ ~Annotated => (image2 = load_images /\ col1 = << >>)
    /\ Annotated =>
           /\ image2 = Annotate(load_images, form)
           /\ col1 = << image2 >>
           /\ Len(image2.texts) = 6
           /\ Len(image2.pastes) =
                  Cardinality({i \in 1..6 : form[Sites[i].g].num # 0})

\* a submission pressed on a page that showed a finished submission has drawn
\* its diagram
C15_Witness ==
    /\ resubmitted
    /\ pc = "done"
    /\ Len(col1) = 1
    /\ Len(image2.pastes) >= 1
    /\ Len(image2.texts) = 6

----------------------------------------------------------------------------
(* C16 *)

\* C16: with the counts inside the widgets' ranges and cores taken above 0,
\* each lobe's '% positive cores' lies in [0, 100]
C16_PercentPositiveWithin100 ==
    \A l \in Lobes :
        (Derived(l) /\ form[PosWidget(l)].num \in 0..30
                    /\ form[TakenWidget(l)].num \in 1..30) =>
            /\ ~Less(Col(Frame(l), "% positive cores"), Num(0))
            /\ ~Less(Num(100), Col(Frame(l), "% positive cores"))

====
